---- MODULE Spec2Model ----
(***************************************************************************)
(* Model of the DLT file parser: the byte source (filereader.cpp), the     *)
(* record parser (record.cpp), the argument parser (argparser.h), the      *)
(* worker task and the supervisor (thread_supervisor.cpp).                 *)
(*                                                                         *)
(* A file is a sequence of bytes 0..255; offsets are 0-based as in the     *)
(* code, so the byte at offset o of file f is f[o + 1].                    *)
(***************************************************************************)
EXTENDS Integers, Sequences, FiniteSets, TLC

\* ------------------------------------------------------------------------
\* Bounds of the model
\* ------------------------------------------------------------------------

\* largest worker count (supervisor::cores_num) explored
MaxThreads == 3

\* largest worker count explored under fair scheduling
MaxLiveThreads == 2

\* longest file over which the two byte sources are driven directly
MaxReaderLen == 4

\* largest number of bytes asked of them in one read
MaxRead == 3

\* number of calls made on them
MaxCalls == 3

\* number of supervisor runs made in one process
MaxRuns == 2

\* number of non-parse (fatal) exceptions raised over one behaviour
MaxFatal == 2

\* ------------------------------------------------------------------------
\* Program constants
\* ------------------------------------------------------------------------

\* std::numeric_limits<std::size_t>::max(); the checker's integers are 32
\* bits wide, so the largest size_t is represented by the largest integer
SIZE_MAX == 2147483647

OVERRUN_EOF == SIZE_MAX

DLT_ID_SIZE == 4

\* sizeof(DltStorageHeader): pattern, seconds, microseconds, ecu
SizeofStorageHeader == 16

\* sizeof(DltStandardHeader): htyp, mcnt, len
SizeofStandardHeader == 4

\* sizeof(DltExtendedHeader): msin, noar, apid, ctid
SizeofExtendedHeader == 10

\* HtypMask
UEH == 1
MSBF == 2
WEID == 4
WSID == 8
WTMS == 16

\* MsgType
TypeUnknown == -2
TypeControl == 3

\* SUBTYPE_UNKNOWN
SUBTYPE_UNKNOWN == -2

\* ControlType::ControlResponse
ControlResponse == 2

\* the empty exception_ptr
NULL == <<>>

\* ------------------------------------------------------------------------
\* Bit and byte helpers
\* ------------------------------------------------------------------------

Pow2(k) == IF k = 0 THEN 1 ELSE IF k = 1 THEN 2 ELSE IF k = 2 THEN 4
           ELSE IF k = 3 THEN 8 ELSE IF k = 4 THEN 16 ELSE IF k = 5 THEN 32
           ELSE IF k = 6 THEN 64 ELSE 128

\* bit k (0..7) of byte b is set
Bit(b, k) == (b \div Pow2(k)) % 2 = 1

\* htyp & mask for a one-bit mask
extractHtyp(htyp, mask) == (htyp \div mask) % 2 = 1

\* (msin & VERB) >> 0
extractMsinVERB(msin) == msin % 2

\* (msin & MSTP) >> 1
extractMsinMSTP(msin) == (msin \div 2) % 8

\* (msin & MTIN) >> 4
extractMsinMTIN(msin) == (msin \div 16) % 16

\* the element of a set of one element: Only({F(v) : v \in {e}}) is F(e)
\* with e evaluated once
Only(S) == CHOOSE x \in S : TRUE

\* byte at 0-based offset off of file f
ByteAt(f, off) == f[off + 1]

\* n zero bytes
Zeros(n) == [k \in 1..n |-> 0]

\* read16_swap(val, true) applied to the two wire bytes b0 b1 that memcpy
\* placed in a little-endian uint16_t: host value b0 + 256*b1, swapped
read16_swap(b0, b1) == b0 * 256 + b1

\* ------------------------------------------------------------------------
\* Byte source: fs::reader / file_precache
\* ------------------------------------------------------------------------

\* a default-constructed cursor over len bytes
NewReader(len) ==
  [pos_ |-> 0, len_ |-> len, chunk_len_ |-> SIZE_MAX,
   overrun_ |-> 0, first_valid_offset_ |-> 0]

\* x - 1 in size_t arithmetic
SizeDec(x) == IF x = 0 THEN SIZE_MAX ELSE x - 1

\* reader::split: cursor i of num (0-based)
SplitBegin(len, num, i) == (len \div num) * i

SplitEnd(len, num, i) == SizeDec((len \div num) * (i + 1))

split(rd, num) ==
  [i \in 0..(num - 1) |->
     [rd EXCEPT !.pos_ = SplitBegin(rd.len_, num, i),
                !.chunk_len_ = SplitEnd(rd.len_, num, i)]]

\* a read that keeps no trace of the fence it passes
read_untracked(rd, bytes_to_read) ==
  LET new_pos == rd.pos_ + bytes_to_read IN
  IF new_pos > rd.len_
    THEN [ok |-> FALSE, rd |-> [rd EXCEPT !.overrun_ = OVERRUN_EOF]]
    ELSE [ok |-> TRUE, rd |-> [rd EXCEPT !.pos_ = new_pos]]

\* file_precache::read: the bytes are those at the old pos_; ok = FALSE
\* stands for parse_exception nesting eof
read(rd, bytes_to_read) ==
  LET new_pos == rd.pos_ + bytes_to_read IN
  IF new_pos > rd.len_
    THEN [ok |-> FALSE, rd |-> [rd EXCEPT !.overrun_ = OVERRUN_EOF]]
    ELSE [ok |-> TRUE,
          rd |-> [rd EXCEPT !.pos_ = new_pos,
                            !.overrun_ = IF new_pos > rd.chunk_len_
                                           THEN new_pos ELSE @]]

\* a seek that lands one byte before the one asked
set_pos_before(rd, pos) == [rd EXCEPT !.pos_ = pos - 1]

\* a seek that lands one byte further than asked
set_pos_further(rd, pos) == [rd EXCEPT !.pos_ = pos + 1]

\* file_map::read: ok = FALSE stands for a bare except::eof
file_map_read(rd, bytes_to_read) ==
  IF rd.pos_ + bytes_to_read > rd.len_
    THEN [ok |-> FALSE, rd |-> rd]
    ELSE [ok |-> TRUE, rd |-> [rd EXCEPT !.pos_ = @ + bytes_to_read]]

\* file_map::set_pos
file_map_set_pos(rd, pos) == [rd EXCEPT !.pos_ = pos]

\* file_precache::set_pos; the assertion is reported apart
set_pos(rd, pos) == [rd EXCEPT !.pos_ = pos]

set_pos_assert(rd, pos) == pos < rd.len_

\* reader::notify_success: eof = TRUE stands for the thrown except::eof
FirstValidOffset(old, offset) == IF old = 0 THEN offset ELSE old

NotifyThrowsEof(rd) == rd.pos_ = rd.len_

notify_success(rd, offset) ==
  [rd  |-> [rd EXCEPT !.first_valid_offset_ = FirstValidOffset(@, offset)],
   eof |-> NotifyThrowsEof(rd)]

\* successive reads of the given sizes, stopping at the first that fails
RECURSIVE readData(_, _)
readData(rd, sizes) ==
  IF sizes = <<>> THEN [ok |-> TRUE, rd |-> rd]
  ELSE Only({IF r.ok THEN readData(r.rd, Tail(sizes)) ELSE r :
               r \in {read(rd, Head(sizes))}})

\* ------------------------------------------------------------------------
\* Endian codec (endian.h) over the payload of file f
\* ------------------------------------------------------------------------

\* a byte of the payload; offsets outside the buffer are reported through
\* the extent of the reads (see parse), their value is not used otherwise
PayloadByte(f, off) == IF off < Len(f) THEN f[off + 1] ELSE 0

\* endian::read<uint16_t>(payload, big_endian)
read16(f, p, big_endian) ==
  IF big_endian THEN PayloadByte(f, p) * 256 + PayloadByte(f, p + 1)
                ELSE PayloadByte(f, p) + 256 * PayloadByte(f, p + 1)

\* endian::read<uint32_t>(payload, big_endian), as its four bytes from the
\* least significant to the most significant
read32(f, p, big_endian) ==
  IF big_endian
    THEN <<PayloadByte(f, p + 3), PayloadByte(f, p + 2),
           PayloadByte(f, p + 1), PayloadByte(f, p)>>
    ELSE <<PayloadByte(f, p), PayloadByte(f, p + 1),
           PayloadByte(f, p + 2), PayloadByte(f, p + 3)>>

\* a 32-bit value given by its bytes equals the small constant c
U32Is(w, c) == w[3] = 0 /\ w[4] = 0 /\ w[1] + 256 * w[2] = c

\* a 32-bit length as a number, saturated at SIZE_MAX when it does not fit
U32Len(w) == IF w[3] = 0 /\ w[4] = 0 THEN w[1] + 256 * w[2] ELSE SIZE_MAX

\* p + n for a saturated n
AddSat(p, n) == IF n = SIZE_MAX THEN SIZE_MAX ELSE p + n

Max(a, b) == IF a >= b THEN a ELSE b

\* ------------------------------------------------------------------------
\* Argument parser (argparser.h)
\* ------------------------------------------------------------------------

\* ArgType bits of the type-info word w (bytes, least significant first)
INFO_BOOL(w) == Bit(w[1], 4)
INFO_SINT(w) == Bit(w[1], 5)
INFO_UINT(w) == Bit(w[1], 6)
INFO_FLOA(w) == Bit(w[1], 7)
INFO_STRG(w) == Bit(w[2], 1)
INFO_RAWD(w) == Bit(w[2], 2)
INFO_VARI(w) == Bit(w[2], 3)
INFO_FIXP(w) == Bit(w[2], 4)
INFO_TRAI(w) == Bit(w[2], 5)
INFO_STRU(w) == Bit(w[2], 6)

\* type & ArgTyleMask
ArgTyle(w) == w[1] % 16

\* type & ArgCodingMask
ArgCoding(w) ==
  IF Bit(w[2], 7)
    THEN (IF w[3] % 4 = 0 THEN "SCOD_UTF8"
          ELSE IF w[3] % 4 = 1 THEN "SCOD_BIN" ELSE "other")
    ELSE (IF w[3] % 4 = 0 THEN "SCOD_ASCII"
          ELSE IF w[3] % 4 = 1 THEN "SCOD_HEX" ELSE "other")

\* the results of the argument parsers: ok = FALSE is a parse_exception,
\* p the payload pointer afterwards, hi the end of the bytes read so far
ArgFail(p, hi) == [ok |-> FALSE, p |-> p, hi |-> hi]
ArgOk(p, hi) == [ok |-> TRUE, p |-> p, hi |-> Max(hi, p)]

\* ArgParser::parseStr
parseStr(f, p, big_endian, scod_type, hi) ==
  LET len == read16(f, p, big_endian)
      q == p + 2
  IN IF len = 0 THEN ArgFail(p, Max(hi, q))
     ELSE IF scod_type = "SCOD_ASCII"
       THEN IF PayloadByte(f, q + len - 1) # 0
              THEN ArgFail(q, Max(hi, q + len))
              ELSE ArgOk(q + len, hi)
       ELSE ArgFail(q, Max(hi, q))

\* ArgParser::parseRaw
parseRaw(f, p, big_endian, hi) ==
  LET len == read16(f, p, big_endian) IN ArgOk(p + 2 + len, hi)

\* sizeof(T) selected by parseUInt / parseSInt; 0 stands for the throw
TyleSize(tyle_type) ==
  IF tyle_type = 1 THEN 1 ELSE IF tyle_type = 2 THEN 2
  ELSE IF tyle_type = 3 THEN 4 ELSE IF tyle_type = 4 THEN 8 ELSE 0

\* ArgParser::parseUInt and parseSInt
parseInt(p, tyle_type, hi) ==
  IF TyleSize(tyle_type) = 0 THEN ArgFail(p, hi)
  ELSE ArgOk(p + TyleSize(tyle_type), hi)

\* ArgParser::parseFloat
parseFloat(p, tyle_type, hi) ==
  IF tyle_type = 3 THEN ArgOk(p + 4, hi)
  ELSE IF tyle_type = 4 THEN ArgOk(p + 8, hi)
  ELSE ArgFail(p, hi)

\* ArgParser::parse: one argument at payload offset p0
ArgParse(f, p0, big_endian, hi0) ==
  LET type == read32(f, p0, big_endian)
      p == p0 + 4
      hi == Max(hi0, p)
  IN IF INFO_STRG(type)
       THEN IF INFO_VARI(type) THEN ArgFail(p, hi)
            ELSE parseStr(f, p, big_endian, ArgCoding(type), hi)
     ELSE IF INFO_UINT(type) THEN parseInt(p, ArgTyle(type), hi)
     ELSE IF INFO_SINT(type) THEN parseInt(p, ArgTyle(type), hi)
     ELSE IF INFO_FLOA(type) THEN parseFloat(p, ArgTyle(type), hi)
     ELSE IF INFO_BOOL(type) THEN ArgOk(p + 1, hi)
     ELSE IF INFO_RAWD(type) THEN parseRaw(f, p, big_endian, hi)
     ELSE IF INFO_FIXP(type) \/ INFO_TRAI(type) \/ INFO_STRU(type)
       THEN ArgFail(p, hi)
     ELSE ArgFail(p, hi)

\* ArgParser::ArgParser: count arguments one after the other
RECURSIVE ArgParser(_, _, _, _, _)
ArgParser(f, p, big_endian, count, hi) ==
  IF count = 0 THEN ArgOk(p, hi)
  ELSE Only({IF a.ok THEN ArgParser(f, a.p, big_endian, count - 1, a.hi)
                      ELSE a :
               a \in {ArgParse(f, p, big_endian, hi)}})

\* ------------------------------------------------------------------------
\* Formatting of integer arguments (argparser.h, fmt::format_to); a value is
\* the sequence of its bytes, the most significant first, and a text is a
\* sequence of characters
\* ------------------------------------------------------------------------

\* endian::extract<T>: the sizeof(T) bytes at the payload pointer, swapped
\* when the payload is little-endian
RECURSIVE Reverse(_)
Reverse(q) == IF q = <<>> THEN <<>> ELSE Reverse(Tail(q)) \o <<Head(q)>>

extract(payload, big_endian) ==
  IF big_endian THEN payload ELSE Reverse(payload)

Digit(n) ==
  <<"0", "1", "2", "3", "4", "5", "6", "7", "8", "9",
    "a", "b", "c", "d", "e", "f">>[n + 1]

\* q without its leading zeros; a single 0 is kept
RECURSIVE StripZeros(_)
StripZeros(q) ==
  IF Len(q) > 1 /\ Head(q) = 0 THEN StripZeros(Tail(q)) ELSE q

\* the hexadecimal digits of the bytes of val, two per byte
RECURSIVE Nibbles(_)
Nibbles(val) ==
  IF val = <<>> THEN <<>>
  ELSE <<Head(val) \div 16, Head(val) % 16>> \o Nibbles(Tail(val))

\* the binary digits of the bytes of val, eight per byte
RECURSIVE Bits(_)
Bits(val) ==
  IF val = <<>> THEN <<>>
  ELSE [k \in 1..8 |-> (Head(val) \div Pow2(8 - k)) % 2] \o Bits(Tail(val))

\* the characters of a sequence of digits
Text(digits) == [k \in 1..Len(digits) |-> Digit(digits[k])]

\* the quotient of val by 10, byte by byte, with the remainder carried
RECURSIVE Quotient10(_, _)
Quotient10(val, carry) ==
  IF val = <<>> THEN <<>>
  ELSE <<(carry * 256 + Head(val)) \div 10>>
         \o Quotient10(Tail(val), (carry * 256 + Head(val)) % 10)

\* the remainder of val by 10
RECURSIVE Remainder10(_, _)
Remainder10(val, carry) ==
  IF val = <<>> THEN carry
  ELSE Remainder10(Tail(val), (carry * 256 + Head(val)) % 10)

IsZero(val) == \A k \in 1..Len(val) : val[k] = 0

\* the decimal digits of val, none for zero
RECURSIVE DecimalDigits(_)
DecimalDigits(val) ==
  IF IsZero(val) THEN <<>>
  ELSE DecimalDigits(Quotient10(val, 0)) \o <<Remainder10(val, 0)>>

\* fmt::format_to "{:#x}", "{:#b}" and "{}" of an unsigned value
FormatHex(val) == <<"0", "x">> \o Text(StripZeros(Nibbles(val)))

FormatBin(val) == <<"0", "b">> \o Text(StripZeros(Bits(val)))

FormatDec(val) ==
  IF IsZero(val) THEN <<"0">> ELSE Text(DecimalDigits(val))

\* Radix selected by parseTyle<T>(scod_type)
Radix(scod_type) ==
  IF scod_type = "SCOD_HEX" THEN "HEX"
  ELSE IF scod_type = "SCOD_BIN" THEN "BIN" ELSE "DEC"

\* ArgParser::parseTyle<T, R>: the coded rendering for HEX and BIN, and
\* after it, for every R, the decimal rendering
parseTyle(output, val, R) ==
  (IF R = "HEX" THEN output \o FormatHex(val)
   ELSE IF R = "BIN" THEN output \o FormatBin(val)
   ELSE output) \o FormatDec(val)

\* ------------------------------------------------------------------------
\* Record parser (record.cpp)
\* ------------------------------------------------------------------------

\* a default-constructed Record::Impl; htyp, len_hi, len_lo are the bytes of
\* standardHeader_, msin and noar those of extendedHeader_
NewRecord ==
  [htyp |-> 0, len_hi |-> 0, len_lo |-> 0, msin |-> 0, noar |-> 0,
   isBigEndian_ |-> FALSE, mode_ |-> "NonVerbose", type_ |-> TypeUnknown,
   subType_ |-> SUBTYPE_UNKNOWN]

\* the storage header pattern 'D' 'L' 'T' 0x01
Signature == <<68, 76, 84, 1>>

SignatureOk(f, off) ==
  /\ ByteAt(f, off) = Signature[1]
  /\ ByteAt(f, off + 1) = Signature[2]
  /\ ByteAt(f, off + 2) = Signature[3]
  /\ ByteAt(f, off + 3) = Signature[4]

\* the sizes of the extra fields of the standard header selected by htyp
ExtraSizes(htyp) ==
  (IF extractHtyp(htyp, WEID) THEN <<DLT_ID_SIZE>> ELSE <<>>)
  \o (IF extractHtyp(htyp, WSID) THEN <<4>> ELSE <<>>)
  \o (IF extractHtyp(htyp, WTMS) THEN <<4>> ELSE <<>>)

\* the mode after the extended header was read: set when VERB is set,
\* otherwise left as it was
ModeAfter(mode_, msin) ==
  IF extractMsinVERB(msin) # 0 THEN "Verbose" ELSE mode_

\* the fields assigned from the extended header
WithExtendedHeader(rec, msin, noar) ==
  [rec EXCEPT !.msin = msin, !.noar = noar,
              !.mode_ = ModeAfter(@, msin),
              !.type_ = extractMsinMSTP(msin),
              !.subType_ = extractMsinMTIN(msin)]

\* len = read16_swap(standardHeader_.len, true) - (len - sizeof(storage)),
\* stored in a uint16_t; consumed counts every byte read so far
BodyLen(declared, consumed) ==
  (declared - (consumed - SizeofStorageHeader)) % 65536

\* getCtrlReturnTypeName throws for an index outside its table
CtrlReturnTypeValid(index) == index < 9

\* Record::Impl::assembleMessage on the payload at offset p: ok = FALSE is
\* a parse_exception, hi the end of the payload bytes read
assembleMessage(f, rec, p) ==
  IF rec.type_ = TypeControl THEN
    IF rec.mode_ = "Verbose" THEN [ok |-> FALSE, hi |-> p]
    ELSE LET id == read32(f, p, rec.isBigEndian_) IN
      IF rec.subType_ = ControlResponse THEN
        LET ret == PayloadByte(f, p + 4)
            q == p + 5
        IN IF U32Is(id, 3844) THEN [ok |-> TRUE, hi |-> q]
           ELSE IF ~CtrlReturnTypeValid(ret) THEN [ok |-> FALSE, hi |-> q]
           ELSE IF U32Is(id, 19)
             THEN [ok |-> TRUE,
                   hi |-> AddSat(q + 4, U32Len(read32(f, q, FALSE)))]
           ELSE IF U32Is(id, 3842) THEN [ok |-> TRUE, hi |-> q + 1 + DLT_ID_SIZE]
           ELSE IF U32Is(id, 3843) THEN [ok |-> TRUE, hi |-> q + 5]
           ELSE [ok |-> TRUE, hi |-> q]
      ELSE [ok |-> TRUE, hi |-> p + 4]
  ELSE IF rec.mode_ = "Verbose" THEN
    IF rec.noar > 0
      THEN LET a == ArgParser(f, p, rec.isBigEndian_, rec.noar, p)
           IN [ok |-> a.ok, hi |-> a.hi]
      ELSE [ok |-> TRUE, hi |-> p]
  ELSE [ok |-> TRUE, hi |-> p + 4]

\* the three ways Record::Impl::parse(fs::reader&) ends
ParseTruncated(rd, rec) ==
  [status |-> "nested_eof", rd |-> rd, rec |-> rec, hi |-> 0]

ParseFailed(rd, rec, hi) ==
  [status |-> "parse_exception", rd |-> rd, rec |-> rec, hi |-> hi]

ParseDone(rd, rec, hi) ==
  [status |-> "ok", rd |-> rd, rec |-> rec, hi |-> hi]

\* the tail of Record::Impl::parse(fs::reader&): r5 is the state after the
\* body was read from offset p, rec3 the fields assigned so far, m the
\* result of assembleMessage
ParseAssembled(r5, rec3, m) ==
  IF m.ok THEN ParseDone(r5.rd, rec3, m.hi)
  ELSE ParseFailed(r5.rd, rec3, m.hi)

ParseBody(f, p, r5, rec3) ==
  IF ~r5.ok THEN ParseTruncated(r5.rd, rec3)
  ELSE Only({ParseAssembled(r5, rec3, m) :
               m \in {assembleMessage(f, rec3, p)}})

\* the read of the body: rd is the cursor after the headers, rec3 the
\* fields assigned so far
ParseLength(f, start, rd, rec3) ==
  Only({ParseBody(f, rd.pos_, r5, rec3) :
          r5 \in {read(rd, BodyLen(read16_swap(rec3.len_hi, rec3.len_lo),
                                   rd.pos_ - start))}})

\* the extended header: r4 is the state after it was read from offset p
ParseExtended(f, start, p, r4, rec2) ==
  IF ~r4.ok THEN ParseTruncated(r4.rd, rec2)
  ELSE Only({ParseLength(f, start, r4.rd, rec3) :
               rec3 \in {WithExtendedHeader(rec2, ByteAt(f, p),
                                            ByteAt(f, p + 1))}})

\* the extra fields: r3 is the state after they were read, rec2 the record
\* with the fields of the standard header
ParseExtras(f, start, r3, rec2) ==
  IF ~r3.ok THEN ParseTruncated(r3.rd, rec2)
  ELSE IF extractHtyp(rec2.htyp, UEH)
    THEN Only({ParseExtended(f, start, r3.rd.pos_, r4, rec2) :
                 r4 \in {read(r3.rd, SizeofExtendedHeader)}})
    ELSE ParseLength(f, start, r3.rd, rec2)

\* the fields assigned from the standard header at offset off
WithStandardHeader(f, rec, off) ==
  [rec EXCEPT !.htyp = ByteAt(f, off),
              !.len_hi = ByteAt(f, off + 2),
              !.len_lo = ByteAt(f, off + 3),
              !.isBigEndian_ = extractHtyp(ByteAt(f, off), MSBF)]

\* the standard header: r2 is the state after the storage header and the
\* standard header were read
ParseStandard(f, start, r2, rec) ==
  IF ~r2.ok THEN ParseTruncated(r2.rd, rec)
  ELSE Only({Only({ParseExtras(f, start, r3, rec2) :
                     r3 \in {readData(r2.rd, ExtraSizes(rec2.htyp))}}) :
               rec2 \in {WithStandardHeader(f, rec,
                                            start + SizeofStorageHeader)}})

\* the rest of the storage header and the standard header: r1 is the state
\* after the pattern was read
ParseHeaders(f, start, r1, rec) ==
  IF ~r1.ok THEN ParseTruncated(r1.rd, rec)
  ELSE IF ~SignatureOk(f, start) THEN ParseFailed(r1.rd, rec, 0)
  ELSE Only({ParseStandard(f, start, r2, rec) :
               r2 \in {readData(r1.rd,
                         <<4, 4, DLT_ID_SIZE, SizeofStandardHeader>>)}})

\* Record::Impl::parse(fs::reader&): one record at rd.pos_
parse(f, rd, rec) ==
  Only({ParseHeaders(f, rd.pos_, r1, rec) : r1 \in {read(rd, DLT_ID_SIZE)}})

\* ------------------------------------------------------------------------
\* Worker task (thread_supervisor.cpp)
\* ------------------------------------------------------------------------

\* an element of records_: the copied Record::Impl, with the offsets of the
\* attempt that produced it ([begin, end) for a valid record)
MakeRecord(rec, corrupted, begin, end) ==
  [corrupted |-> corrupted, begin |-> begin, end |-> end,
   htyp |-> rec.htyp, msin |-> rec.msin, noar |-> rec.noar,
   mode |-> rec.mode_, type |-> rec.type_, subType |-> rec.subType_]

\* task::task; the fields after record are bookkeeping of the run:
\* attempts (calls of parse(reader)), parsed (those that returned normally),
\* notified (calls of notify_success), first_notified (offset of the first),
\* current_pos (the local of Record::Impl::parse: where the last attempt
\* began), body_end (the cursor when the last attempt ended) and payload_end
\* (the end of the bytes that attempt read through the payload pointer, 0
\* when it read none)
NewTask(rd) ==
  [reader_ |-> rd, records_ |-> <<>>, record |-> NewRecord,
   status |-> "running", exit |-> "none",
   attempts |-> 0, parsed |-> 0, notified |-> 0, first_notified |-> 0,
   set_pos_ok |-> TRUE, current_pos |-> 0, body_end |-> 0, payload_end |-> 0]

\* a hook that appends a placeholder for every failed attempt
AppendAlways(records_, record) == Append(records_, record)

\* parse_exception_handler of task::execute
parse_exception_handler(records_, record) ==
  IF Len(records_) = 0 \/ ~records_[Len(records_)].corrupted
    THEN Append(records_, record)
    ELSE records_

\* a worker that never looks at the shared cell
CancelledNever(cell) == FALSE

\* the check of the shared cell after a record was appended
Cancelled(cell) == cell # NULL

\* the record is appended when parse returned
PushBack(records_, record) == Append(records_, record)

\* the outcome of an attempt whose payload reads left the buffer is not
\* defined by the language: ub is the outcome the build produced
AttemptOutcome(f, r, ub) ==
  IF r.status # "nested_eof" /\ r.hi > Len(f) THEN ub ELSE r.status

\* the iteration of task::execute after parse returned and notified: t2 is
\* the task with the notified reader, record the parsed record
AfterSuccess(t2, record, eof, cell) ==
  IF eof THEN [t2 EXCEPT !.status = "done", !.exit = "eof"]
  ELSE IF t2.reader_.overrun_ > 0
    THEN [t2 EXCEPT !.records_ = PushBack(@, record), !.record = NewRecord,
                    !.status = "done", !.exit = "overrun"]
  ELSE IF Cancelled(cell)
    THEN [t2 EXCEPT !.records_ = PushBack(@, record), !.record = NewRecord,
                    !.status = "done", !.exit = "cancel"]
  ELSE [t2 EXCEPT !.records_ = PushBack(@, record), !.record = NewRecord]

\* a catch that seeks past the pattern the failed attempt read
AfterFailureSkipPattern(t1, r, current_pos, nested) ==
  IF nested
    THEN [t1 EXCEPT
            !.records_ = parse_exception_handler(@,
               MakeRecord(r.rec, TRUE, current_pos, current_pos)),
            !.record = r.rec, !.reader_ = r.rd,
            !.status = "done", !.exit = "truncated"]
    ELSE [t1 EXCEPT
            !.records_ = parse_exception_handler(@,
               MakeRecord(r.rec, TRUE, current_pos, current_pos)),
            !.record = r.rec,
            !.reader_ = set_pos(r.rd, current_pos + DLT_ID_SIZE),
            !.set_pos_ok = @ /\ set_pos_assert(r.rd,
                                               current_pos + DLT_ID_SIZE)]

\* a catch that examines the nested cause before it calls the hook
AfterFailureEofFirst(t1, r, current_pos, nested) ==
  IF nested
    THEN [t1 EXCEPT !.record = r.rec, !.reader_ = r.rd,
                    !.status = "done", !.exit = "truncated"]
    ELSE [t1 EXCEPT
            !.records_ = parse_exception_handler(@,
               MakeRecord(r.rec, TRUE, current_pos, current_pos)),
            !.record = r.rec,
            !.reader_ = set_pos(r.rd, current_pos + 1),
            !.set_pos_ok = @ /\ set_pos_assert(r.rd, current_pos + 1)]

\* the catch of parse_exception in Record::Impl::parse: the hook, then the
\* nested eof is rethrown or the cursor moves one byte past current_pos
AfterFailure(t1, r, current_pos, nested) ==
  IF nested
    THEN [t1 EXCEPT
            !.records_ = parse_exception_handler(@,
               MakeRecord(r.rec, TRUE, current_pos, current_pos)),
            !.record = r.rec, !.reader_ = r.rd,
            !.status = "done", !.exit = "truncated"]
    ELSE [t1 EXCEPT
            !.records_ = parse_exception_handler(@,
               MakeRecord(r.rec, TRUE, current_pos, current_pos)),
            !.record = r.rec,
            !.reader_ = set_pos(r.rd, current_pos + 1),
            !.set_pos_ok = @ /\ set_pos_assert(r.rd, current_pos + 1)]

\* the task after parse returned and the cursor was notified
Notified(t1, r, current_pos) ==
  [t1 EXCEPT !.reader_ = notify_success(r.rd, current_pos).rd,
             !.parsed = @ + 1, !.notified = @ + 1,
             !.first_notified = IF t1.notified = 0 THEN current_pos ELSE @]

\* the attempt r of task t1 that began at current_pos ended with outcome
AfterAttempt(t1, r, outcome, current_pos, cell) ==
  IF outcome = "ok"
    THEN Only({AfterSuccess(t2,
                 MakeRecord(r.rec, FALSE, current_pos, r.rd.pos_),
                 notify_success(r.rd, current_pos).eof, cell) :
               t2 \in {Notified(t1, r, current_pos)}})
    ELSE AfterFailure(t1, r, current_pos, outcome = "nested_eof")

\* one attempt of the loop of Record::Impl::parse(self, reader, handler)
\* and, when it succeeds, the rest of the iteration of task::execute
TaskIteration(f, t, cell, ub) ==
  Only({AfterAttempt([t EXCEPT !.attempts = @ + 1,
                               !.current_pos = t.reader_.pos_,
                               !.body_end = r.rd.pos_,
                               !.payload_end = r.hi],
                     r, AttemptOutcome(f, r, ub), t.reader_.pos_, cell) :
          r \in {parse(f, t.reader_, t.record)}})

\* a cell that keeps the exception it already holds
PublishOnce(cell, e) == IF cell = NULL THEN e ELSE cell

\* the assignment of a caught non-parse exception to the shared cell
Publish(cell, e) == e

\* ------------------------------------------------------------------------
\* Supervisor (thread_supervisor.cpp)
\* ------------------------------------------------------------------------

\* the decision to drop the leading record of chunk i (i > 0)
SkipFirstRecord(ts, i) ==
  /\ Len(ts[i].records_) > 0
  /\ ts[i].records_[1].corrupted
  /\ LET prev_overrun == ts[i - 1].reader_.overrun_
         cur_overrun == ts[i].reader_.overrun_
         cur_valid_offset == ts[i].reader_.first_valid_offset_
     IN \/ (prev_overrun > 0 /\ prev_overrun = cur_valid_offset)
        \/ (prev_overrun = OVERRUN_EOF /\ cur_overrun = OVERRUN_EOF)

\* the first condition of the decision holds: the previous cursor passed
\* its fence and stopped where this chunk has its first valid record
SkipByOverrun(ts, i) ==
  /\ Len(ts[i].records_) > 0
  /\ ts[i].records_[1].corrupted
  /\ ts[i - 1].reader_.overrun_ > 0
  /\ ts[i - 1].reader_.overrun_ = ts[i].reader_.first_valid_offset_

\* the assertion inside the second condition is evaluated: the first
\* condition is false and both cursors ran off the end of the file
MergeAssertEvaluated(ts, i) ==
  /\ Len(ts[i].records_) > 0
  /\ ts[i].records_[1].corrupted
  /\ ~(/\ ts[i - 1].reader_.overrun_ > 0
       /\ ts[i - 1].reader_.overrun_ = ts[i].reader_.first_valid_offset_)
  /\ ts[i - 1].reader_.overrun_ = OVERRUN_EOF
  /\ ts[i].reader_.overrun_ = OVERRUN_EOF

\* assert(results[i].size() == 1)
MergeAssert(ts, i) == Len(ts[i].records_) = 1

\* the part of results[i] moved to the output
Contribution(ts, i) ==
  IF i > 0 /\ SkipFirstRecord(ts, i)
    THEN Tail(ts[i].records_)
    ELSE ts[i].records_

\* the concatenation of the results of tasks 0..k
RECURSIVE MergeUpTo(_, _)
MergeUpTo(ts, k) ==
  IF k = 0 THEN Contribution(ts, 0)
  ELSE MergeUpTo(ts, k - 1) \o Contribution(ts, k)

\* ------------------------------------------------------------------------
\* Input files
\* ------------------------------------------------------------------------

\* DltStandardHeader with message counter 0 and the length big-endian
StandardHeader(htyp, len) == <<htyp, 0, len \div 256, len % 256>>

\* DltExtendedHeader with zero apid and ctid
ExtendedHeader(msin, noar) == <<msin, noar>> \o Zeros(2 * DLT_ID_SIZE)

\* a stored message without extra fields: storage header, standard header,
\* ext (an extended header or nothing) and the payload
Message(htyp, ext, payload) ==
  Signature \o Zeros(SizeofStorageHeader - DLT_ID_SIZE)
    \o StandardHeader(htyp, SizeofStandardHeader + Len(ext) + Len(payload))
    \o ext \o payload

\* version 1, no extended header: a non-verbose message of 24 bytes
MsgPlain == Message(32, <<>>, Zeros(4))

\* version 1 with extended header, msin = log info, non-verbose: 34 bytes
MsgLog == Message(33, ExtendedHeader(64, 0), Zeros(4))

\* version 1 with extended header, msin = VERB | control: rejected by
\* assembleMessage after all its bytes were read
MsgVerboseControl == Message(33, ExtendedHeader(7, 0), Zeros(4))

\* a non-verbose message with a payload of 76 bytes: 96 bytes
MsgLong == Message(32, <<>>, Zeros(76))

\* f without its last byte
Truncate(f) == SubSeq(f, 1, Len(f) - 1)

\* f with its first byte replaced
CorruptFirst(f) == <<0>> \o Tail(f)

\* the concatenation of the messages of ms
RECURSIVE Concat(_)
Concat(ms) == IF ms = <<>> THEN <<>> ELSE Head(ms) \o Concat(Tail(ms))

\* well-formed files, as their messages
MessagesTwo == <<MsgPlain, MsgLog>>
MessagesThree == <<MsgLong, MsgPlain, MsgPlain>>

ValidMessages == {MessagesTwo, MessagesThree}

FileTwo == Concat(MessagesTwo)
FileThree == Concat(MessagesThree)

ValidFiles == {Concat(ms) : ms \in ValidMessages}

\* the files parsed in the runs in which fatal exceptions are raised
FatalFiles == {FileTwo, Truncate(FileTwo)}

Files ==
  ValidFiles \cup
  {Truncate(FileTwo), Truncate(FileThree), CorruptFirst(FileTwo),
   MsgVerboseControl \o MsgLog \o MsgPlain}

\* a message whose standard header declares 200 bytes in a file of 52: a
\* plain message lies among the bytes it claims, one byte follows it
FileOverlong ==
  Signature \o Zeros(SizeofStorageHeader - DLT_ID_SIZE)
    \o StandardHeader(32, 200) \o Zeros(7) \o MsgPlain \o <<0>>

\* a message rejected after all its bytes were read, then two messages
FileVerboseControl == MsgVerboseControl \o MsgLog \o MsgPlain

\* a message rejected after all its 82 bytes were read, whose payload holds
\* the message MsgLog at offset 30, followed by two plain messages: 130
\* bytes
FileEmbedded ==
  Message(33, ExtendedHeader(7, 0), MsgLog \o Zeros(18))
    \o MsgPlain \o MsgPlain

\* files in which a chunk starts inside bytes another worker has read
BoundaryFiles == {FileEmbedded, FileThree}

\* files with bytes that do not parse
CorruptFiles ==
  {CorruptFirst(FileTwo), Truncate(FileTwo), Truncate(FileThree),
   FileOverlong, FileVerboseControl}

\* files in which a worker resynchronises and a pattern follows
LiveFiles == {CorruptFirst(FileTwo), FileVerboseControl}

\* the number of header bytes selected by htyp, the standard header
\* included
HeaderBytes(htyp) ==
  SizeofStandardHeader
    + (IF extractHtyp(htyp, WEID) THEN DLT_ID_SIZE ELSE 0)
    + (IF extractHtyp(htyp, WSID) THEN 4 ELSE 0)
    + (IF extractHtyp(htyp, WTMS) THEN 4 ELSE 0)
    + (IF extractHtyp(htyp, UEH) THEN SizeofExtendedHeader ELSE 0)

\* a message whose standard header declares len bytes, with zero bytes for
\* the headers selected by htyp and a zero payload that ends where the
\* parser's body length ends, followed by one byte
Declaring(htyp, len) ==
  Signature \o Zeros(SizeofStorageHeader - DLT_ID_SIZE)
    \o StandardHeader(htyp, len)
    \o Zeros(HeaderBytes(htyp) - SizeofStandardHeader)
    \o Zeros(BodyLen(len, SizeofStorageHeader + HeaderBytes(htyp)))
    \o <<0>>

\* version 1 with every choice of UEH, WEID, WSID and WTMS
HeaderChoices ==
  {32 + u * UEH + e * WEID + i * WSID + t * WTMS :
     u \in 0..1, e \in 0..1, i \in 0..1, t \in 0..1}

\* messages that declare four bytes of payload, and messages that declare
\* one byte less than their headers
LengthFiles ==
  {Declaring(htyp, HeaderBytes(htyp) + 4) : htyp \in HeaderChoices}
    \cup {Declaring(htyp, HeaderBytes(htyp) - 1) : htyp \in HeaderChoices}

\* the files given to the adapter: the file without bytes among them
AdapterFiles == {<<>>, FileTwo, Truncate(FileTwo)}

\* a message with an extended header for every value of the msin byte,
\* followed by a plain message
RecordFiles ==
  {Message(33, ExtendedHeader(msin, 0), Zeros(4)) \o MsgPlain :
     msin \in 0..255}

\* ------------------------------------------------------------------------
\* State
\* ------------------------------------------------------------------------

VARIABLES
  file,                 \* the bytes of the file being parsed
  threads_num_,         \* supervisor::threads_num_
  tasks_,               \* supervisor::tasks_, indexed from 0
  spawned,              \* threads started by supervisor::execute
  joined,               \* threads joined by supervisor::execute
  records,              \* the vector filled by supervisor::execute
  phase,                \* position of the main thread
  exception_ptr_holder, \* supervisor::exception_ptr_holder (static)
  rethrown,             \* the exception supervisor::execute threw
  run,                  \* number of the supervisor run in this process
  fatals,               \* fatal exceptions raised so far
  first_fatal,          \* first exception published in this run
  last_fatal,           \* exception published last
  precache,             \* a cursor of a file_precache driven directly
  mapped,               \* a cursor of a file_map given the same calls
  outcome,              \* what the last call on each of them gave
  history,              \* the calls made on them, oldest first
  argument,             \* an unsigned argument given to an ArgParser
  output_               \* ArgParser::output_, one character per element

supervisorVars ==
  <<file, threads_num_, tasks_, spawned, joined, records, phase,
    exception_ptr_holder, rethrown, run, fatals, first_fatal, last_fatal>>

readerVars == <<precache, mapped, outcome, history>>

argVars == <<argument, output_>>

vars == <<supervisorVars, readerVars, argVars>>

Workers == 0..(threads_num_ - 1)

\* the exception object raised in task i of the current run
Exception(i) == <<run, i>>

\* the state of a process about to construct a supervisor over f
Fresh(f, n) ==
  /\ file = f
  /\ threads_num_ = n
  /\ tasks_ = <<>>
  /\ spawned = 0
  /\ joined = 0
  /\ records = <<>>
  /\ phase = "new"
  /\ rethrown = NULL
  /\ first_fatal = NULL

\* what a call gave: what it threw ("none" when it returned) and the offset
\* in the buffer of the bytes it returned (-1 when it returned none)
Gave(thrown, entry) == [thrown |-> thrown, entry |-> entry]

\* no cursor is driven directly
NoCursor ==
  /\ precache = NewReader(0)
  /\ mapped = NewReader(0)
  /\ outcome = [precache |-> Gave("none", -1), mapped |-> Gave("none", -1)]
  /\ history = <<>>

\* no argument is formatted
NoArgument ==
  /\ argument = [scod_type |-> "SCOD_ASCII", big_endian |-> FALSE,
                 payload |-> <<>>]
  /\ output_ = <<>>

\* the process has raised no exception yet
Started ==
  /\ exception_ptr_holder = NULL
  /\ run = 1
  /\ fatals = 0
  /\ last_fatal = NULL

Init ==
  /\ \E f \in Files, n \in 1..MaxThreads : Fresh(f, n)
  /\ Started
  /\ NoCursor
  /\ NoArgument

InitFatal ==
  /\ \E f \in FatalFiles, n \in 1..MaxThreads : Fresh(f, n)
  /\ Started
  /\ NoCursor
  /\ NoArgument

\* ------------------------------------------------------------------------
\* Actions
\* ------------------------------------------------------------------------

\* a split that hands out cursors over an empty file
SplitNeverThrows(len) == FALSE

\* reader::split throws except::eof for a reader without bytes
SplitThrowsEof(len) == len = 0

\* supervisor::supervisor
Construct ==
  /\ phase = "new"
  /\ ~SplitThrowsEof(Len(file))
  /\ tasks_' = [i \in Workers |->
                  NewTask(split(NewReader(Len(file)), threads_num_)[i])]
  /\ phase' = "constructed"
  /\ UNCHANGED <<file, threads_num_, spawned, joined, records,
                 exception_ptr_holder, rethrown, run, fatals, first_fatal,
                 last_fatal>>
  /\ UNCHANGED readerVars
  /\ UNCHANGED argVars

\* supervisor::execute: start the next thread
Spawn ==
  /\ phase = "constructed"
  /\ spawned < threads_num_
  /\ spawned' = spawned + 1
  /\ UNCHANGED <<file, threads_num_, tasks_, joined, records, phase,
                 exception_ptr_holder, rethrown, run, fatals, first_fatal,
                 last_fatal>>
  /\ UNCHANGED readerVars
  /\ UNCHANGED argVars

\* the outcomes a build can produce for the next attempt of task t
OutcomesOf(f, r) ==
  IF r.status # "nested_eof" /\ r.hi > Len(f)
    THEN {"ok", "parse_exception"} ELSE {r.status}

UBOutcomes(f, t) ==
  Only({OutcomesOf(f, r) : r \in {parse(f, t.reader_, t.record)}})

\* task::execute of thread i: one parse attempt
TaskStep(i) ==
  /\ i < spawned
  /\ tasks_[i].status = "running"
  /\ \E ub \in UBOutcomes(file, tasks_[i]) :
       tasks_' = [tasks_ EXCEPT
                    ![i] = TaskIteration(file, @, exception_ptr_holder, ub)]
  /\ UNCHANGED <<file, threads_num_, spawned, joined, records, phase,
                 exception_ptr_holder, rethrown, run, fatals, first_fatal,
                 last_fatal>>
  /\ UNCHANGED readerVars
  /\ UNCHANGED argVars

\* task::execute of thread i: an attempt ends in an exception that is
\* neither parse_exception nor eof (catch (...))
TaskFatal(i) ==
  /\ i < spawned
  /\ tasks_[i].status = "running"
  /\ fatals < MaxFatal
  /\ fatals' = fatals + 1
  /\ tasks_' = [tasks_ EXCEPT ![i] = [@ EXCEPT !.status = "done",
                                                !.exit = "fatal",
                                                !.current_pos =
                                                  tasks_[i].reader_.pos_,
                                                !.attempts = @ + 1]]
  /\ exception_ptr_holder' = Publish(exception_ptr_holder, Exception(i))
  /\ first_fatal' = IF first_fatal = NULL THEN Exception(i) ELSE first_fatal
  /\ last_fatal' = Exception(i)
  /\ UNCHANGED <<file, threads_num_, spawned, joined, records, phase,
                 rethrown, run>>
  /\ UNCHANGED readerVars
  /\ UNCHANGED argVars

\* supervisor::execute: join the next thread
Join ==
  /\ phase = "constructed"
  /\ spawned = threads_num_
  /\ joined < threads_num_
  /\ tasks_[joined].status = "done"
  /\ joined' = joined + 1
  /\ UNCHANGED <<file, threads_num_, tasks_, spawned, records, phase,
                 exception_ptr_holder, rethrown, run, fatals, first_fatal,
                 last_fatal>>
  /\ UNCHANGED readerVars
  /\ UNCHANGED argVars

\* the exception supervisor::execute ends with (NULL: it returns)
Rethrow(cell) == cell

\* supervisor::execute after the joins: merge, then rethrow or return
Finish ==
  /\ phase = "constructed"
  /\ joined = threads_num_
  /\ records' = MergeUpTo(tasks_, threads_num_ - 1)
  /\ rethrown' = Rethrow(exception_ptr_holder)
  /\ phase' = IF rethrown' # NULL THEN "thrown" ELSE "returned"
  /\ UNCHANGED <<file, threads_num_, tasks_, spawned, joined,
                 exception_ptr_holder, run, fatals, first_fatal, last_fatal>>
  /\ UNCHANGED readerVars
  /\ UNCHANGED argVars

\* the process parses another file with a new supervisor
NewRun ==
  /\ phase \in {"returned", "thrown"}
  /\ run < MaxRuns
  /\ run' = run + 1
  /\ \E f \in FatalFiles, n \in 1..MaxThreads :
       /\ file' = f
       /\ threads_num_' = n
  /\ tasks_' = <<>>
  /\ spawned' = 0
  /\ joined' = 0
  /\ records' = <<>>
  /\ phase' = "new"
  /\ rethrown' = NULL
  /\ first_fatal' = NULL
  /\ UNCHANGED <<exception_ptr_holder, fatals, last_fatal>>
  /\ UNCHANGED readerVars
  /\ UNCHANGED argVars

\* no allocation fails and the process parses one file
Next ==
  \/ Construct
  \/ Spawn
  \/ \E i \in Workers : TaskStep(i)
  \/ Join
  \/ Finish

Spec == Init /\ [][Next]_vars

\* workers raise fatal exceptions and the process parses several files
NextFatal ==
  \/ Construct
  \/ Spawn
  \/ \E i \in Workers : TaskStep(i)
  \/ \E i \in Workers : TaskFatal(i)
  \/ Join
  \/ Finish
  \/ NewRun

SpecFatal == InitFatal /\ [][NextFatal]_vars

\* the supervisor parses a file with bytes that do not parse
InitCorrupt ==
  /\ \E f \in CorruptFiles, n \in 1..MaxThreads : Fresh(f, n)
  /\ Started
  /\ NoCursor
  /\ NoArgument

SpecCorrupt == InitCorrupt /\ [][Next]_vars

\* every started thread is scheduled again and again until its task ends,
\* and the main thread goes on starting and joining threads
Fairness ==
  /\ \A i \in 0..(MaxLiveThreads - 1) : WF_vars(TaskStep(i))
  /\ WF_vars(Construct)
  /\ WF_vars(Spawn)
  /\ WF_vars(Join)
  /\ WF_vars(Finish)

\* the supervisor parses a file in which a worker resynchronises
InitLive ==
  /\ \E f \in LiveFiles, n \in 1..MaxLiveThreads : Fresh(f, n)
  /\ Started
  /\ NoCursor
  /\ NoArgument

SpecLive == InitLive /\ [][Next]_vars /\ Fairness

\* the process parses one file whose chunks start inside read bytes
InitBoundary ==
  /\ \E f \in BoundaryFiles, n \in 1..MaxThreads : Fresh(f, n)
  /\ Started
  /\ NoCursor
  /\ NoArgument

SpecBoundary == InitBoundary /\ [][Next]_vars

\* fair scheduling of workers that may raise fatal exceptions, in one run
NextLiveFatal ==
  \/ Construct
  \/ Spawn
  \/ \E i \in Workers : TaskStep(i)
  \/ \E i \in Workers : TaskFatal(i)
  \/ Join
  \/ Finish

SpecLiveFatal == InitLive /\ [][NextLiveFatal]_vars /\ Fairness

\* dlt_file_adapter::parse: the eof thrown by split leaves the constructor
\* of the supervisor and is caught; nothing is logged or stored
CatchEof ==
  /\ phase = "new"
  /\ SplitThrowsEof(Len(file))
  /\ phase' = "empty"
  /\ UNCHANGED <<file, threads_num_, tasks_, spawned, joined, records,
                 exception_ptr_holder, rethrown, run, fatals, first_fatal,
                 last_fatal>>
  /\ UNCHANGED readerVars
  /\ UNCHANGED argVars

\* the adapter parses a file that may be empty
InitAdapter ==
  /\ \E f \in AdapterFiles, n \in 1..MaxThreads : Fresh(f, n)
  /\ Started
  /\ NoCursor
  /\ NoArgument

NextAdapter ==
  \/ Construct
  \/ CatchEof
  \/ Spawn
  \/ \E i \in Workers : TaskStep(i)
  \/ Join
  \/ Finish

SpecAdapter == InitAdapter /\ [][NextAdapter]_vars

\* one worker parses a file whose first message has an extended header
\* with an arbitrary msin byte
InitRecord ==
  /\ \E f \in RecordFiles : Fresh(f, 1)
  /\ Started
  /\ NoCursor
  /\ NoArgument

SpecRecord == InitRecord /\ [][Next]_vars

\* one worker parses a file whose message declares a length
InitLength ==
  /\ \E f \in LengthFiles : Fresh(f, 1)
  /\ Started
  /\ NoCursor
  /\ NoArgument

SpecLength == InitLength /\ [][Next]_vars

\* ------------------------------------------------------------------------
\* The two byte sources driven directly (filereader.cpp)
\* ------------------------------------------------------------------------

\* no supervisor runs
NoSupervisor ==
  /\ Fresh(<<>>, 1)
  /\ Started

\* cursor i of a split in num of a file of len bytes, of either kind:
\* split and the fields it sets belong to the base class
InitReader ==
  /\ NoSupervisor
  /\ \E len \in 1..MaxReaderLen, num \in 1..MaxThreads :
       \E i \in 0..(num - 1) :
         /\ precache = split(NewReader(len), num)[i]
         /\ mapped = split(NewReader(len), num)[i]
  /\ outcome = [precache |-> Gave("none", -1), mapped |-> Gave("none", -1)]
  /\ history = <<>>
  /\ NoArgument

\* what read gave on the file_precache and on the file_map
GaveRead(rd, r, thrown) ==
  IF r.ok THEN Gave("none", rd.pos_) ELSE Gave(thrown, -1)

\* read(bytes_to_read) on both cursors
ReaderRead(bytes_to_read) ==
  /\ Len(history) < MaxCalls
  /\ precache' = read(precache, bytes_to_read).rd
  /\ mapped' = file_map_read(mapped, bytes_to_read).rd
  /\ outcome' =
       [precache |-> GaveRead(precache, read(precache, bytes_to_read),
                              "parse_exception(eof)"),
        mapped |-> GaveRead(mapped, file_map_read(mapped, bytes_to_read),
                            "eof")]
  /\ history' = Append(history, [call |-> "read", pos |-> precache.pos_,
                                  arg |-> bytes_to_read])
  /\ UNCHANGED supervisorVars
  /\ UNCHANGED argVars

\* set_pos(pos) on both cursors, for a pos that satisfies the assertion
ReaderSetPos(pos) ==
  /\ Len(history) < MaxCalls
  /\ set_pos_assert(precache, pos)
  /\ set_pos_assert(mapped, pos)
  /\ precache' = set_pos(precache, pos)
  /\ mapped' = file_map_set_pos(mapped, pos)
  /\ outcome' = [precache |-> Gave("none", -1), mapped |-> Gave("none", -1)]
  /\ history' = Append(history, [call |-> "set_pos", pos |-> precache.pos_,
                                  arg |-> pos])
  /\ UNCHANGED supervisorVars
  /\ UNCHANGED argVars

\* what notify_success gave
GaveNotify(n) == IF n.eof THEN Gave("eof", -1) ELSE Gave("none", -1)

\* notify_success(offset) on both cursors
ReaderNotify(offset) ==
  /\ Len(history) < MaxCalls
  /\ precache' = notify_success(precache, offset).rd
  /\ mapped' = notify_success(mapped, offset).rd
  /\ outcome' = [precache |-> GaveNotify(notify_success(precache, offset)),
                 mapped |-> GaveNotify(notify_success(mapped, offset))]
  /\ history' = Append(history, [call |-> "notify_success",
                                  pos |-> precache.pos_, arg |-> offset])
  /\ UNCHANGED supervisorVars
  /\ UNCHANGED argVars

NextReader ==
  \/ \E bytes_to_read \in 1..MaxRead : ReaderRead(bytes_to_read)
  \/ \E pos \in 0..(MaxReaderLen - 1) : ReaderSetPos(pos)
  \/ \E offset \in 0..(MaxReaderLen - 1) : ReaderNotify(offset)

SpecReader == InitReader /\ [][NextReader]_vars

\* ------------------------------------------------------------------------
\* An unsigned argument formatted directly (argparser.h)
\* ------------------------------------------------------------------------

\* the argument bytes given to parseUInt: 8, 16, 32 and 64 bits
ArgumentPayloads ==
  {<<0>>, <<255>>, <<18, 52>>, <<0, 1>>, <<18, 52, 86, 120>>,
   <<120, 86, 52, 18>>, <<255, 255, 255, 255>>,
   <<1, 2, 3, 4, 5, 6, 7, 8>>, <<255, 255, 255, 255, 255, 255, 255, 255>>}

\* the values of type & ArgCodingMask
CodingTypes == {"SCOD_ASCII", "SCOD_UTF8", "SCOD_HEX", "SCOD_BIN"}

InitFormat ==
  /\ NoSupervisor
  /\ NoCursor
  /\ argument \in [scod_type : CodingTypes, big_endian : BOOLEAN,
                   payload : ArgumentPayloads]
  /\ output_ = <<>>

\* ArgParser::parseUInt for the tyle that has the size of the payload
parseUInt ==
  /\ output_ = <<>>
  /\ output_' = parseTyle(output_,
                          extract(argument.payload, argument.big_endian),
                          Radix(argument.scod_type))
  /\ UNCHANGED <<argument, supervisorVars, readerVars>>

NextFormat == parseUInt

SpecFormat == InitFormat /\ [][NextFormat]_vars

\* ------------------------------------------------------------------------
\* Sequential reference: what supervisor::execute computes when no worker
\* raises a fatal exception (the workers do not interact otherwise)
\* ------------------------------------------------------------------------

\* task::execute run to its end
RECURSIVE RunTask(_, _)
RunTask(f, t) ==
  IF t.status = "done" THEN t
  ELSE Only({RunTask(f, t1) :
               t1 \in {TaskIteration(f, t, NULL,
                         parse(f, t.reader_, t.record).status)}})

\* the tasks of supervisor::supervisor for file f and n workers, each run
\* to its end
RunTasks(f, n) ==
  [i \in 0..(n - 1) |->
     RunTask(f, NewTask(split(NewReader(Len(f)), n)[i]))]

\* the records supervisor::execute stores for file f and n workers
Execute(f, n) == MergeUpTo(RunTasks(f, n), n - 1)

\* ------------------------------------------------------------------------
\* Vocabulary of the properties
\* ------------------------------------------------------------------------

\* offset at which message j (1-based) of ms starts; j = Len(ms) + 1 gives
\* the length of the file
StartOf(ms, j) == Len(Concat(SubSeq(ms, 1, j - 1)))

\* r is the valid record of message j of ms
IsRecordOf(r, ms, j) ==
  /\ ~r.corrupted
  /\ r.begin = StartOf(ms, j)
  /\ r.end = StartOf(ms, j + 1)

\* number of valid records of a record list
RECURSIVE NumValid(_)
NumValid(rs) ==
  IF rs = <<>> THEN 0
  ELSE (IF Head(rs).corrupted THEN 0 ELSE 1) + NumValid(Tail(rs))

\* execute returned normally
Returned == phase = "returned"

\* indices of the valid records of the output that contain byte b
ValidCover(b) ==
  {k \in 1..Len(records) :
     ~records[k].corrupted /\ records[k].begin <= b /\ b < records[k].end}

\* end of the resync region of the placeholder at index k of the output:
\* the start of the next valid record, or the end of the file
RegionEnd(k) ==
  LET later == {j \in (k + 1)..Len(records) : ~records[j].corrupted}
  IN IF later = {} THEN Len(file)
     ELSE records[CHOOSE j \in later : \A l \in later : j <= l].begin

\* indices of the placeholders of the output whose region contains byte b
PlaceholderCover(b) ==
  {k \in 1..Len(records) :
     records[k].corrupted /\ records[k].begin <= b /\ b < RegionEnd(k)}

\* ------------------------------------------------------------------------
\* Properties
\* ------------------------------------------------------------------------

\* C1: for a well-formed file the records stored with N workers are those
\* stored with one worker, and the two messages of FileTwo split over two
\* workers give exactly two valid records.
C1_ChunkingCorrectness ==
  (Returned /\ file \in ValidFiles) =>
    /\ records = Execute(file, 1)
    /\ (file = FileTwo /\ threads_num_ = 2) =>
         /\ Len(records) = 2
         /\ IsRecordOf(records[1], MessagesTwo, 1)
         /\ IsRecordOf(records[2], MessagesTwo, 2)

\* C2: in every worker the number of valid records in the list equals the
\* number of parse attempts that decoded a record.
C2_EverySuccessAppended ==
  \A i \in DOMAIN tasks_ :
    NumValid(tasks_[i].records_) = tasks_[i].parsed

\* C3: in the stored output every byte of the file lies in exactly one
\* valid record, or in no valid record and in the region of exactly one
\* placeholder.
C3_EveryByteCovered ==
  Returned =>
    \A b \in 0..(Len(file) - 1) :
      \/ Cardinality(ValidCover(b)) = 1
      \/ (ValidCover(b) = {} /\ Cardinality(PlaceholderCover(b)) = 1)

\* C4: a well-formed file without its last byte gives the records of its
\* complete messages followed by exactly one placeholder.
C4_TruncatedTail ==
  \A ms \in ValidMessages :
    (Returned /\ file = Truncate(Concat(ms))) =>
      /\ Len(records) = Len(ms)
      /\ \A j \in 1..(Len(ms) - 1) : IsRecordOf(records[j], ms, j)
      /\ records[Len(ms)].corrupted

\* C5: a file whose first byte is corrupted and whose messages are well
\* formed from byte k on gives one placeholder followed by the records of
\* the messages from byte k on.
C5_CorruptedHead ==
  \A ms \in ValidMessages :
    (Returned /\ file = CorruptFirst(Concat(ms))) =>
      /\ Len(records) = Len(ms)
      /\ records[1].corrupted
      /\ \A j \in 2..Len(ms) : IsRecordOf(records[j], ms, j)

\* C6: a valid record in a worker's list is Verbose exactly when it has an
\* extended header whose msin has the VERB bit set.
C6_ModeFromOwnMsin ==
  \A i \in DOMAIN tasks_ :
    \A k \in 1..Len(tasks_[i].records_) :
      LET r == tasks_[i].records_[k] IN
      ~r.corrupted =>
        ((r.mode = "Verbose") <=>
           (extractHtyp(r.htyp, UEH) /\ extractMsinVERB(r.msin) = 1))

C8_CheckedAtTop ==
  [][\A i \in (DOMAIN tasks_) \cap (DOMAIN tasks_') :
       exception_ptr_holder # NULL =>
         /\ tasks_'[i].attempts = tasks_[i].attempts
         /\ tasks_'[i].records_ = tasks_[i].records_]_vars

\* C8 (amended): the cell is checked at the end of an iteration that
\* appended a valid record: a worker that appends a valid record while the
\* cell is set exits in that iteration, and a worker that has exited makes
\* no further attempt and appends nothing.
C8_CheckedAfterAppend ==
  [][\A i \in (DOMAIN tasks_) \cap (DOMAIN tasks_') :
       /\ (/\ exception_ptr_holder # NULL
           /\ NumValid(tasks_'[i].records_) > NumValid(tasks_[i].records_))
            => tasks_'[i].status = "done"
       /\ tasks_[i].status = "done" => tasks_'[i] = tasks_[i]]_vars

\* C8 witness: a worker left its loop because it found the cell set after
\* appending a record, with bytes of its chunk still unread.
C8_Witness ==
  \E i \in DOMAIN tasks_ :
    /\ tasks_[i].exit = "cancel"
    /\ exception_ptr_holder # NULL
    /\ tasks_[i].reader_.pos_ < tasks_[i].reader_.chunk_len_

\* C9: the cursors made by split start at floor(len*i/n) with the fence
\* floor(len*(i+1)/n) - 1, the last fence is len - 1 and no two cursors
\* start at the same offset.
C9_SplitPartition ==
  (phase = "constructed" /\ spawned = 0) =>
    /\ \A i \in Workers :
         /\ tasks_[i].reader_.pos_ = (Len(file) * i) \div threads_num_
         /\ tasks_[i].reader_.chunk_len_ =
              ((Len(file) * (i + 1)) \div threads_num_) - 1
    /\ tasks_[threads_num_ - 1].reader_.chunk_len_ = Len(file) - 1
    /\ \A i, j \in Workers :
         i # j => tasks_[i].reader_.pos_ # tasks_[j].reader_.pos_

\* C10: once a cursor was notified of a success, first_valid_offset is the
\* offset given by the first notification.
C10_FirstValidOffsetSetOnce ==
  \A i \in DOMAIN tasks_ :
    tasks_[i].notified >= 1 =>
      tasks_[i].reader_.first_valid_offset_ = tasks_[i].first_notified

\* C11: every valid record whose htyp has UEH set has a type between 0
\* (Log) and 3 (Control), whatever its msin byte.
C11_TypeInRange ==
  \A i \in DOMAIN tasks_ :
    \A k \in 1..Len(tasks_[i].records_) :
      (/\ ~tasks_[i].records_[k].corrupted
       /\ extractHtyp(tasks_[i].records_[k].htyp, UEH))
        => tasks_[i].records_[k].type \in 0..3

\* C13: for a file of length 0 no task is made, no thread is started, no
\* record is stored and no exception leaves the adapter: the eof thrown by
\* split is caught.
C13_EmptyFileSilent ==
  Len(file) = 0 =>
    /\ phase \in {"new", "empty"}
    /\ tasks_ = <<>>
    /\ spawned = 0
    /\ records = <<>>
    /\ rethrown = NULL

\* C13 witness: the adapter caught the eof of an empty file.
C13_Witness ==
  /\ Len(file) = 0
  /\ phase = "empty"
  /\ records = <<>>

\* C14: in every state no worker's list holds two corrupted records next
\* to each other.
C14_NoAdjacentPlaceholders ==
  \A i \in DOMAIN tasks_ :
    \A k \in 1..(Len(tasks_[i].records_) - 1) :
      ~(/\ tasks_[i].records_[k].corrupted
        /\ tasks_[i].records_[k + 1].corrupted)

\* C14 witness: a worker whose first attempts failed twice or more holds a
\* single placeholder.
C14_Witness ==
  \E i \in DOMAIN tasks_ :
    /\ tasks_[i].attempts >= 2
    /\ tasks_[i].parsed = 0
    /\ Len(tasks_[i].records_) = 1
    /\ tasks_[i].records_[1].corrupted

\* C15: the stored output never holds two corrupted records next to each
\* other.
C15_MergedNoAdjacentPlaceholders ==
  phase \in {"returned", "thrown"} =>
    \A k \in 1..(Len(records) - 1) :
      ~(records[k].corrupted /\ records[k + 1].corrupted)

\* C17: when the merge evaluates its assertion for chunk i, the list of
\* chunk i has exactly one record.
C17_MergeAssertHolds ==
  (phase # "new" /\ joined = threads_num_) =>
    \A i \in 1..(threads_num_ - 1) :
      MergeAssertEvaluated(tasks_, i) => MergeAssert(tasks_, i)

\* C16 (as claimed): the attempt that fails by truncation ends the worker
\* and leaves its list as it was.
C16_NoHookOnTruncation ==
  [][\A i \in (DOMAIN tasks_) \cap (DOMAIN tasks_') :
       (tasks_[i].exit # "truncated" /\ tasks_'[i].exit = "truncated")
         => tasks_'[i].records_ = tasks_[i].records_]_vars

\* C16 (amended): the hook is called for every parse failure before the
\* nested cause is examined: the attempt that fails by truncation appends
\* a placeholder for its offset unless the list ends with a placeholder,
\* and then the worker stops.
C16_HookBeforeTruncationStop ==
  [][\A i \in (DOMAIN tasks_) \cap (DOMAIN tasks_') :
       (tasks_[i].exit # "truncated" /\ tasks_'[i].exit = "truncated")
         => /\ tasks_'[i].status = "done"
            /\ IF \/ tasks_[i].records_ = <<>>
                  \/ ~tasks_[i].records_[Len(tasks_[i].records_)].corrupted
                 THEN /\ Len(tasks_'[i].records_) = Len(tasks_[i].records_) + 1
                      /\ SubSeq(tasks_'[i].records_, 1, Len(tasks_[i].records_))
                           = tasks_[i].records_
                      /\ tasks_'[i].records_[Len(tasks_'[i].records_)].corrupted
                      /\ tasks_'[i].records_[Len(tasks_'[i].records_)].begin
                           = tasks_'[i].current_pos
                 ELSE tasks_'[i].records_ = tasks_[i].records_]_vars

\* C16 witness: a worker stopped by a truncated record holds the
\* placeholder of that attempt behind a valid record.
C16_Witness ==
  \E i \in DOMAIN tasks_ :
    /\ tasks_[i].exit = "truncated"
    /\ Len(tasks_[i].records_) >= 2
    /\ tasks_[i].records_[Len(tasks_[i].records_)].corrupted
    /\ tasks_[i].records_[Len(tasks_[i].records_)].begin
         = tasks_[i].current_pos
    /\ ~tasks_[i].records_[Len(tasks_[i].records_) - 1].corrupted

\* the offsets of file f at or after p where the four bytes of the storage
\* header pattern lie
SignaturesFrom(f, p) ==
  {s \in p..(Len(f) - DLT_ID_SIZE) : SignatureOk(f, s)}

\* the first of them
NextSignature(f, p) ==
  CHOOSE s \in SignaturesFrom(f, p) : \A u \in SignaturesFrom(f, p) : s <= u

\* the offsets where a pattern lies in one of the files
SignatureOffsets ==
  UNION {SignaturesFrom(f, 0) : f \in LiveFiles}

\* the last attempt of worker i failed without truncation and a pattern
\* follows, the first one at offset s
Resyncing(i, s) ==
  /\ i \in DOMAIN tasks_
  /\ tasks_[i].status = "running"
  /\ tasks_[i].attempts > 0
  /\ tasks_[i].reader_.pos_ = tasks_[i].current_pos + 1
  /\ SignaturesFrom(file, tasks_[i].reader_.pos_) # {}
  /\ NextSignature(file, tasks_[i].reader_.pos_) = s

\* worker i made an attempt that began at offset s
AttemptedAt(i, s) ==
  /\ i \in DOMAIN tasks_
  /\ tasks_[i].attempts > 0
  /\ tasks_[i].current_pos = s

\* C19: an attempt that fails without truncation at offset pos leaves the
\* worker running with its cursor at pos + 1, and a worker in this state
\* eventually makes an attempt at the offset of the first pattern that
\* follows.
C19_ResyncReachesSignature ==
  /\ [][\A i \in (DOMAIN tasks_) \cap (DOMAIN tasks_') :
          (/\ tasks_'[i].attempts = tasks_[i].attempts + 1
           /\ tasks_'[i].parsed = tasks_[i].parsed
           /\ tasks_'[i].exit = "none")
            => /\ tasks_'[i].current_pos = tasks_[i].reader_.pos_
               /\ tasks_'[i].reader_.pos_ = tasks_[i].reader_.pos_ + 1]_vars
  /\ \A i \in 0..(MaxLiveThreads - 1) :
       \A s \in SignatureOffsets :
         Resyncing(i, s) ~> AttemptedAt(i, s)

\* C19 witness: a worker whose first attempt failed went byte by byte to
\* the first pattern that followed, more than one byte further, and parsed
\* the record there.
C19_Witness ==
  \E i \in DOMAIN tasks_ :
    /\ Len(tasks_[i].records_) >= 2
    /\ tasks_[i].records_[1].corrupted
    /\ ~tasks_[i].records_[2].corrupted
    /\ SignaturesFrom(file, tasks_[i].records_[1].begin + 1) # {}
    /\ tasks_[i].records_[2].begin
         = NextSignature(file, tasks_[i].records_[1].begin + 1)
    /\ tasks_[i].records_[2].begin > tasks_[i].records_[1].begin + 1
    /\ tasks_[i].attempts
         > tasks_[i].records_[2].begin - tasks_[i].records_[1].begin

\* the length declared by the standard header of the message at offset b
DeclaredLength(f, b) ==
  read16_swap(ByteAt(f, b + SizeofStorageHeader + 2),
              ByteAt(f, b + SizeofStorageHeader + 3))

\* C20: every valid record declares at least the bytes of the headers its
\* htyp selects, and its payload has the declared length less the headers.
C20_LengthCoversHeaders ==
  \A i \in DOMAIN tasks_ :
    \A k \in 1..Len(tasks_[i].records_) :
      ~tasks_[i].records_[k].corrupted =>
        /\ DeclaredLength(file, tasks_[i].records_[k].begin)
             >= HeaderBytes(tasks_[i].records_[k].htyp)
        /\ tasks_[i].records_[k].end - tasks_[i].records_[k].begin
             = SizeofStorageHeader
                 + DeclaredLength(file, tasks_[i].records_[k].begin)

\* C12: after the same calls a file_precache and a file_map gave the same
\* bytes or the same failure and hold the same position, overrun and
\* first_valid_offset.
C12_ReadersAgree ==
  /\ outcome.precache = outcome.mapped
  /\ precache.pos_ = mapped.pos_
  /\ precache.overrun_ = mapped.overrun_
  /\ precache.first_valid_offset_ = mapped.first_valid_offset_

\* the reads of the history that passed the fence of the cursor or the end
\* of the file, as indices of the history
CrossingReads ==
  {k \in 1..Len(history) :
     /\ history[k].call = "read"
     /\ \/ history[k].pos + history[k].arg > precache.chunk_len_
        \/ history[k].pos + history[k].arg > precache.len_}

\* the most recent of them
LastCrossing ==
  history[CHOOSE k \in CrossingReads : \A l \in CrossingReads : l <= k]

\* C18: the overrun of a cursor is 0 exactly when none of its reads passed
\* the fence; otherwise it is the offset just after the most recent read
\* that passed it, or OVERRUN_EOF when that read passed the end of the
\* file; once it is not 0 it stays so.
C18_OverrunTracksCrossing ==
  /\ [](IF CrossingReads = {} THEN precache.overrun_ = 0
        ELSE IF LastCrossing.pos + LastCrossing.arg > precache.len_
          THEN precache.overrun_ = OVERRUN_EOF
          ELSE precache.overrun_ = LastCrossing.pos + LastCrossing.arg)
  /\ [][precache.overrun_ # 0 => precache'.overrun_ # 0]_vars

\* C18 witness: a read passed the end of the file, a seek went back and a
\* later read passed the fence only: the overrun is the offset after the
\* later read.
C18_Witness ==
  /\ Len(history) = 3
  /\ history[1].call = "read"
  /\ history[1].pos + history[1].arg > precache.len_
  /\ history[2].call = "set_pos"
  /\ history[3].call = "read"
  /\ precache.overrun_ = history[3].pos + history[3].arg
  /\ precache.overrun_ <= precache.len_

\* C21: an unsigned argument is rendered once: in hexadecimal with 0x for
\* the coding HEX, in binary with 0b for BIN, in decimal otherwise; the
\* 32-bit value 0x12345678 with the coding HEX gives 0x12345678.
C21_SingleRendering ==
  output_ # <<>> =>
    /\ output_ =
         IF argument.scod_type = "SCOD_HEX"
           THEN FormatHex(extract(argument.payload, argument.big_endian))
         ELSE IF argument.scod_type = "SCOD_BIN"
           THEN FormatBin(extract(argument.payload, argument.big_endian))
         ELSE FormatDec(extract(argument.payload, argument.big_endian))
    /\ (/\ argument.scod_type = "SCOD_HEX"
        /\ extract(argument.payload, argument.big_endian)
             = <<18, 52, 86, 120>>)
         => output_ = <<"0", "x", "1", "2", "3", "4", "5", "6", "7", "8">>

\* the ways task::execute ends
TaskExits == {"truncated", "overrun", "eof", "fatal", "cancel"}

\* supervisor::execute has ended, with every thread joined and every task
\* out of its loop
ExecuteEnded ==
  /\ phase \in {"returned", "thrown"}
  /\ joined = threads_num_
  /\ \A i \in Workers :
       tasks_[i].status = "done" /\ tasks_[i].exit \in TaskExits

\* C22: an attempt of a worker begins where the cursor was left, which is
\* one byte after the start of a failed attempt and the end of the record
\* after a successful one, so it begins further than the attempt before
\* it; every worker leaves its loop and execute ends with every thread
\* joined.
C22_WorkersTerminate ==
  /\ [][\A i \in (DOMAIN tasks_) \cap (DOMAIN tasks_') :
          tasks_'[i].attempts = tasks_[i].attempts + 1
            => /\ tasks_'[i].current_pos = tasks_[i].reader_.pos_
               /\ tasks_[i].attempts > 0
                    => tasks_'[i].current_pos > tasks_[i].current_pos
               /\ (tasks_'[i].exit = "none"
                     /\ tasks_'[i].parsed = tasks_[i].parsed)
                    => tasks_'[i].reader_.pos_ = tasks_'[i].current_pos + 1
               /\ tasks_'[i].parsed = tasks_[i].parsed + 1
                    => tasks_'[i].reader_.pos_
                         >= tasks_'[i].current_pos + SizeofStorageHeader
                              + SizeofStandardHeader]_vars
  /\ <>ExecuteEnded

\* C22 witness: execute has ended and a worker that failed attempts and
\* parsed records has left its loop.
C22_Witness ==
  /\ ExecuteEnded
  /\ \E i \in Workers :
       /\ tasks_[i].parsed >= 1
       /\ tasks_[i].attempts >= tasks_[i].parsed + 2

\* C23: in a run after the first in which no worker raises a fatal
\* exception, the new supervisor starts with an empty cell, no worker leaves
\* its loop because it found the cell set, and execute on a well-formed
\* file returns without throwing.
C23_NoLeakIntoLaterRun ==
  (run > 1 /\ first_fatal = NULL) =>
    /\ phase \in {"new", "constructed"} => exception_ptr_holder = NULL
    /\ \A i \in DOMAIN tasks_ : tasks_[i].exit # "cancel"
    /\ file \in ValidFiles => phase # "thrown"

\* the last element of a non-empty record list
Last(rs) == rs[Len(rs)]

\* C24: when the merge drops the leading placeholder of chunk i because the
\* previous cursor's overrun equals this chunk's first valid offset, the
\* last record of worker i-1 is valid, begins before the start of chunk i
\* and ends at that overrun, so it contains every byte from the start of
\* chunk i up to the first valid offset.
C24_DroppedBytesInsidePreviousRecord ==
  phase \in {"returned", "thrown"} =>
    \A i \in 1..(threads_num_ - 1) :
      SkipByOverrun(tasks_, i) =>
        /\ Len(tasks_[i - 1].records_) > 0
        /\ ~Last(tasks_[i - 1].records_).corrupted
        /\ Last(tasks_[i - 1].records_).begin
             < SplitBegin(Len(file), threads_num_, i)
        /\ Last(tasks_[i - 1].records_).end
             = tasks_[i - 1].reader_.overrun_
        /\ tasks_[i].records_[1].begin
             = SplitBegin(Len(file), threads_num_, i)
        /\ \A b \in SplitBegin(Len(file), threads_num_, i)
                      ..(tasks_[i].reader_.first_valid_offset_ - 1) :
             /\ Last(tasks_[i - 1].records_).begin <= b
             /\ b < Last(tasks_[i - 1].records_).end

\* C25: every seek of the resynchronisation satisfies assert(pos < len_),
\* and a worker still in its loop has its cursor inside the file.
C25_SeekInsideFile ==
  \A i \in DOMAIN tasks_ :
    /\ tasks_[i].set_pos_ok
    /\ tasks_[i].status = "running"
         => tasks_[i].reader_.pos_ < tasks_[i].reader_.len_

\* C25 witness: a worker that parsed nothing resynchronised up to the last
\* offset at which the pattern can still be read, sought one byte further
\* and was stopped there by truncation.
C25_Witness ==
  \E i \in DOMAIN tasks_ :
    /\ tasks_[i].exit = "truncated"
    /\ tasks_[i].parsed = 0
    /\ tasks_[i].attempts >= 2
    /\ tasks_[i].current_pos = tasks_[i].reader_.len_ - DLT_ID_SIZE + 1
    /\ tasks_[i].set_pos_ok

\* C26: the bytes an attempt reads through the payload pointer end no
\* later than the body returned by reader.read(len).
C26_PayloadReadsInsideBody ==
  \A i \in DOMAIN tasks_ : tasks_[i].payload_end <= tasks_[i].body_end

====
